---- MODULE Spec2Model ----
(***************************************************************************)
(* PicPop client-side protocol layer: the kiosk app (kiosk/src/App.tsx)    *)
(* and the phone app (frontend/src/App.tsx with hooks/useWebSocket.ts).    *)
(*                                                                         *)
(* Both clients are single-threaded React programs.  One step of the model *)
(* is one callback of the event loop run to completion (a click handler,   *)
(* the continuation of an awaited fetch, a WebSocket event handler, a      *)
(* timer callback) together with the render and the effects it triggers.   *)
(* A value a callback reads from the render that created it (a closure) is *)
(* stored with the socket or request that holds the callback.              *)
(*                                                                         *)
(* The two clients talk only to the backend, which is not part of the      *)
(* repository's sources; it is the environment (responses, events, close   *)
(* codes are chosen nondeterministically).  A behaviour follows one client *)
(* (variable role), so the state space is the sum of the two clients'.     *)
(*                                                                         *)
(* Nullable values are sequences of length at most one: None is null,      *)
(* Some(v) a value.  Time is counted in seconds by the ages of the pending *)
(* timers.                                                                 *)
(***************************************************************************)
EXTENDS Integers, Sequences, FiniteSets, TLC

None == <<>>
Some(v) == <<v>>
IsSome(o) == o # <<>>
Get(o) == o[1]
Max0(n) == IF n < 0 THEN 0 ELSE n
MinOf(S) == CHOOSE x \in S : \A y \in S : x <= y

(* ------------------------------ bounds -------------------------------- *)
MaxSocks == 2        \* kiosk sockets not yet collected at once
MaxCaptureReqs == 1  \* POST .../capture requests in flight at once
MaxPhotos == 2       \* length of a photo list
MaxConn == 2         \* phone_connected events counted in one session
MaxDisc == 3         \* phone_disconnected events counted in one session
MaxCountdown == 1    \* largest countdown value the backend sends
MaxEndReqs == 2      \* POST .../end requests in flight at once
MaxErrTimers == 2    \* pending error auto-clear timers

(* -------------------------- program constants ------------------------- *)
KioskReconnectDelay == 2
ErrorClearDelay == 5

\* Session ids are opaque and fresh; as many as can be referenced at once.
Sids == 1..(MaxSocks + MaxEndReqs + 2)

(* ------------------------------ inputs -------------------------------- *)
\* A URL is relative (it starts with '/') or absolute.
Url(rel, name) == [rel |-> rel, base |-> IF rel THEN "" ELSE "http://cdn", path |-> name]
\* photo_ready payloads: ids and sequence values repeat and come out of order.
PhotoPayloads ==
    { [id |-> "p1", sessionId |-> "s1", sequence |-> 2,
       thumbnailUrl |-> Url(TRUE, "t1"), webUrl |-> Url(TRUE, "w1")],
      [id |-> "p2", sessionId |-> "s1", sequence |-> 1,
       thumbnailUrl |-> Url(FALSE, "t2"), webUrl |-> Url(TRUE, "w2")] }

CountdownData ==
    {None, Some([value |-> None])} \cup {Some([value |-> Some(v)]) : v \in 0..MaxCountdown}

KioskMessages ==
    {[type |-> t, data |-> None] :
        t \in {"phone_connected", "phone_disconnected", "capture_complete",
               "session_ended", "photo_ready", "malformed", "kiosk_connected"}}
    \cup {[type |-> "countdown", data |-> d] : d \in CountdownData}
    \cup {[type |-> "photo_ready", data |-> Some(p)] : p \in PhotoPayloads}
    \cup {[type |-> "capture_failed", data |-> d] :
            d \in {None, Some([error |-> "lens cap on"])}}

\* Outcomes of a fetch: a 2xx response, a non-2xx response with a JSON body
\* (detail present or not), a non-2xx with a body that is no JSON, a rejection.
HttpOutcomes ==
    { [kind |-> "ok", detail |-> None],
      [kind |-> "status", detail |-> Some("camera busy")],
      [kind |-> "status", detail |-> None],
      [kind |-> "status", detail |-> Some("")],
      [kind |-> "badbody", detail |-> None],
      [kind |-> "reject", detail |-> Some("Failed to fetch")] }

VARIABLES
    role,         \* which client this behaviour follows: "kiosk", "phone" or "phone-short"
    kMounted,     \* the kiosk App component is mounted
    kiosk,        \* the kiosk's React state: state, session, countdown, photos, error, isStarting
    kSocks,       \* the kiosk's WebSocket objects, with wsRef and the reconnect timers
    kErrTimers,   \* pending setTimeout(() => setError(null), 5000): their ages
    kCreateReqs,  \* POST /sessions in flight: the session each startSession call closed over
    kCaptureReqs, \* POST /sessions/{id}/capture in flight
    kEndReqs,     \* POST /sessions/{id}/end in flight: session ids
    hConn,        \* history: phone_connected events handled since the session was created
    hDisc,        \* history: phone_disconnected events handled since then
    hFloored,     \* history: those phone_disconnected that arrived at phoneCount 0
    hPhotoLog,    \* history: photo_ready payloads handled since the photo list was cleared
    pPhase,       \* the phone App component: "initial", "mounted" or "unmounted"
    phone,        \* the phone's React state, isConnected of useWebSocket included
    pSocks,       \* the phone's WebSocket objects, with the refs and the timers
    last          \* history: the callback that ran last, with its input

kvars == <<kMounted, kiosk, kSocks, kErrTimers,
           kCreateReqs, kCaptureReqs, kEndReqs>>
hvars == <<hConn, hDisc, hFloored, hPhotoLog>>
pvars == <<pPhase, phone, pSocks>>
vars == <<role, kvars, pvars, hvars, last>>

(* --------------------------- sockets: helpers -------------------------- *)
\* The WebSocket objects of a client are kept in the order of their creation. A
\* socket record holds its readyState st, the session id of its URL, what its
\* handlers closed over (cap), whether the client's wsRef names it (cur), the age of
\* the reconnect timer its onclose set (timer) and whether reconnectTimeoutRef names
\* that timer (tref).
NewSock(sessionId, cap) ==
    [st |-> "connecting", sid |-> sessionId, cap |-> cap,
     cur |-> TRUE, timer |-> None, tref |-> FALSE]

Live(socks) == {i \in DOMAIN socks : socks[i].st \in {"connecting", "open"}}
Current(socks) == {i \in DOMAIN socks : socks[i].cur}
Timers(socks) == {i \in DOMAIN socks : IsSome(socks[i].timer)}

\* if (wsRef.current) wsRef.current.close(): a connecting or open socket starts
\* closing; a closing or closed one is left as it is.
CloseCurrent(socks) ==
    [i \in DOMAIN socks |->
        IF socks[i].cur /\ socks[i].st \in {"connecting", "open"}
        THEN [socks[i] EXCEPT !.st = "closing"] ELSE socks[i]]

\* wsRef.current = null (or its overwriting by a new socket)
DropRef(socks) == [i \in DOMAIN socks |-> [socks[i] EXCEPT !.cur = FALSE]]

\* if (ref.current) clearTimeout(ref.current): the timer the ref names is cancelled;
\* the id left in the ref names no timer any more.
ClearTimeout(socks) ==
    [i \in DOMAIN socks |->
        IF socks[i].tref THEN [socks[i] EXCEPT !.timer = None, !.tref = FALSE] ELSE socks[i]]

\* A closed socket that neither the ref nor a pending timer reaches is garbage.
Reachable(x) == ~(x.st = "closed" /\ ~x.cur /\ x.timer = None)
Collect(socks) == SelectSeq(socks, Reachable)

\* connectWebSocket: the prior socket is closed only if it is OPEN.
CloseIfOpen(socks) ==
    [i \in DOMAIN socks |->
        IF socks[i].cur /\ socks[i].st = "open"
        THEN [socks[i] EXCEPT !.st = "closing"] ELSE socks[i]]

\* connectWebSocket(sessionId) of the render whose session was cap.
ConnectWebSocket(socks, sessionId, cap) ==
    Append(Collect(DropRef(CloseIfOpen(socks))), NewSock(sessionId, cap))

\* The setters of an unmounted component do nothing.
Commit(k) == IF kMounted THEN k ELSE kiosk

(* ---------------------- kiosk: the state machine ----------------------- *)
ApiBase == "http://localhost:8000"

\* url.startsWith('/') ? `${API_BASE}${url}` : url
WithApiBase(u) == IF u.rel THEN [rel |-> FALSE, base |-> ApiBase, path |-> u.path] ELSE u

\* The Photo the kiosk builds from a photo_ready payload.
KioskPhoto(d) ==
    [id |-> d.id, thumbnailUrl |-> WithApiBase(d.thumbnailUrl), webUrl |-> WithApiBase(d.webUrl)]

\* Math.max(0, prev.phoneCount) - 1: the clamp applied to the wrong operand.
DecrementClampsFirst(n) == Max0(n) - 1

\* phoneCount after phone_disconnected: Math.max(0, prev.phoneCount - 1)
Decrement(n) == Max0(n - 1)

\* A flag "some phone is connected" kept in place of the count.
IncrementOnce(n) == IF n >= 1 THEN n ELSE n + 1

\* phoneCount after phone_connected: prev.phoneCount + 1
Increment(n) == n + 1

\* An append that skips a photo whose id the list already holds.
AppendPhotoOnce(photos, photo) ==
    IF \E i \in DOMAIN photos : photos[i].id = photo.id THEN photos ELSE Append(photos, photo)

\* setSession(prev => prev ? {...prev, phoneCount: ...} : null)
PhoneConnected(session) ==
    IF IsSome(session)
    THEN Some([Get(session) EXCEPT !.phoneCount = Increment(@)])
    ELSE None

PhoneDisconnected(session) ==
    IF IsSome(session)
    THEN Some([Get(session) EXCEPT !.phoneCount = Decrement(@)])
    ELSE None

\* [...prev, photo]
AppendPhoto(photos, photo) == Append(photos, photo)

\* message.data?.value ?? null
CountdownValue(data) == IF IsSome(data) THEN Get(data).value ELSE None

\* A countdown that leaves the screen state as it is.
CountdownKeepsState(data) == FALSE

\* message.data?.value !== null: undefined (no data) is not null.
CountdownStartsCapture(data) == ~(IsSome(data) /\ Get(data).value = None)

\* The text of capture_failed without a look at the event.
CaptureFailedGeneric(data) == "Capture failed"

\* message.data?.error || 'Capture failed'
CaptureFailedText(data) ==
    IF IsSome(data) /\ Get(data).error # "" THEN Get(data).error ELSE "Capture failed"

\* The state setters of handleWebSocketMessage, without session_ended (which calls
\* endSession) and without the timer of capture_failed.  A frame that is no JSON, or a
\* photo_ready without data, throws inside the try of ws.onmessage and sets nothing.
HandleWebSocketMessage(k, m) ==
    CASE m.type = "phone_connected" ->
            [k EXCEPT !.session = PhoneConnected(@)]
      [] m.type = "phone_disconnected" ->
            [k EXCEPT !.session = PhoneDisconnected(@)]
      [] m.type = "countdown" ->
            [k EXCEPT !.countdown = CountdownValue(m.data),
                      !.state = IF CountdownStartsCapture(m.data) THEN "capturing" ELSE @]
      [] m.type = "photo_ready" /\ IsSome(m.data) ->
            [k EXCEPT !.photos = AppendPhoto(@, KioskPhoto(Get(m.data)))]
      [] m.type = "capture_complete" ->
            [k EXCEPT !.state = "session", !.countdown = None]
      [] m.type = "capture_failed" ->
            [k EXCEPT !.state = "session", !.countdown = None,
                      !.error = Some(CaptureFailedText(m.data))]
      [] OTHER -> k

\* The end of endSession without setPhotos([]).
ResetSessionKeepsPhotos(k) ==
    [k EXCEPT !.session = None, !.countdown = None, !.state = "welcome"]

\* The end of endSession, reporting a missing session as an error.
ResetSessionReports(k) ==
    [k EXCEPT !.session = None, !.photos = <<>>, !.countdown = None, !.state = "welcome",
              !.error = IF k.session = None THEN Some("No active session") ELSE @]

\* The state setters at the end of endSession.
ResetSession(k) ==
    [k EXCEPT !.session = None, !.photos = <<>>, !.countdown = None, !.state = "welcome"]

\* The message startCapture shows. A non-2xx response throws
\* Error(data.detail || 'Failed to start capture'), data being {} when the body is no
\* JSON; a rejected fetch throws the runtime's own Error, whose message is shown.
CaptureErrorText(r) ==
    CASE r.kind = "status" ->
            IF IsSome(r.detail) /\ Get(r.detail) # "" THEN Get(r.detail)
            ELSE "Failed to start capture"
      [] r.kind = "badbody" -> "Failed to start capture"
      [] OTHER -> Get(r.detail)

\* ws.onclose of the kiosk: "if (session)" reads the session of the render that
\* created connectWebSocket.
KioskReconnects(cap) == IsSome(cap)

\* A session id the backend has not handed out to anything still around.
UsedSids ==
    {kSocks[i].sid : i \in DOMAIN kSocks}
    \cup {kEndReqs[i] : i \in DOMAIN kEndReqs}
    \cup (IF IsSome(kiosk.session) THEN {Get(kiosk.session).id} ELSE {})
FreshSids == Sids \ UsedSids

KioskInit ==
    /\ kMounted = TRUE
    /\ kiosk = [state |-> "welcome", session |-> None, countdown |-> None,
                photos |-> <<>>, error |-> None, isStarting |-> FALSE]
    /\ kSocks = <<>>
    /\ kErrTimers = {}
    /\ kCreateReqs = <<>>
    /\ kCaptureReqs = 0
    /\ kEndReqs = <<>>
    /\ hConn = 0
    /\ hDisc = 0
    /\ hFloored = 0
    /\ hPhotoLog = <<>>

\* The history variable names the callbacks whose input the state does not show.
Done(op, arg) ==
    last' = IF op \in {"startSession", "startCapture", "endSession", "onmessage",
                       "errorTimer"} /\ arg # "click"
            THEN [op |-> op, arg |-> arg, code |-> 0, opened |-> FALSE, data |-> None,
             fwd |-> FALSE, sent |-> 0]
            ELSE [op |-> "other", arg |-> "", code |-> 0, opened |-> FALSE, data |-> None,
             fwd |-> FALSE, sent |-> 0]

\* The history of the kiosk's ws.onmessage: the message's type and payload.
KDoneMessage(m) ==
    last' = [op |-> "onmessage", arg |-> m.type, code |-> 0, opened |-> FALSE,
             data |-> m.data, fwd |-> FALSE, sent |-> 0]

\* countdown !== null && countdown > 0: the CountdownOverlay is rendered.
ShowOverlay(k) == IsSome(k.countdown) /\ Get(k.countdown) > 0

Tail1(q) == SubSeq(q, 2, Len(q))

(* --------------------------- kiosk: actions ---------------------------- *)
\* endSession from "if (wsRef.current)" on: the socket is closed and forgotten, the
\* timer the ref names is cancelled.
EndSessionSockets(socks) == Collect(ClearTimeout(DropRef(CloseCurrent(socks))))

\* ws.onclose of socket i: it is CLOSED; if the closure's session is set, a timer is
\* set and the ref names it.
OnCloseSockets(socks, i) ==
    IF KioskReconnects(socks[i].cap)
    THEN [j \in DOMAIN socks |->
            IF j = i THEN [socks[j] EXCEPT !.st = "closed", !.timer = Some(0), !.tref = TRUE]
            ELSE [socks[j] EXCEPT !.tref = FALSE]]
    ELSE [socks EXCEPT ![i].st = "closed"]

\* WelcomeScreen's Start button (shown in state welcome, disabled while isLoading)
\* calls startSession up to its await.
KioskStartSession ==
    /\ role = "kiosk" /\ kMounted
    /\ kiosk.state = "welcome" /\ ~kiosk.isStarting
    /\ kiosk' = [kiosk EXCEPT !.error = None, !.isStarting = TRUE]
    /\ kCreateReqs' = Append(kCreateReqs, kiosk.session)
    /\ Done("startSession", "click")
    /\ UNCHANGED <<role, pvars, kMounted, kSocks, kErrTimers, kCaptureReqs, kEndReqs, hvars>>

\* startSession after the await, the response being ok with a JSON body: the session
\* is recorded and connectWebSocket of the calling render opens the socket.
KioskSessionCreated ==
    /\ role = "kiosk"
    /\ kCreateReqs # <<>>
    /\ Len(ConnectWebSocket(kSocks, 0, None)) <= MaxSocks
    /\ LET id == MinOf(FreshSids)
       IN /\ kiosk' = Commit([kiosk EXCEPT
                         !.session = Some([id |-> id, phoneCount |-> 0]),
                         !.photos = <<>>, !.state = "session", !.isStarting = FALSE])
          /\ kSocks' = ConnectWebSocket(kSocks, id, Head(kCreateReqs))
    /\ kCreateReqs' = Tail1(kCreateReqs)
    /\ hConn' = 0 /\ hDisc' = 0 /\ hFloored' = 0 /\ hPhotoLog' = <<>>
    /\ Done("startSession", "ok")
    /\ UNCHANGED <<role, pvars, kMounted, kErrTimers, kCaptureReqs, kEndReqs>>

\* startSession after the await, the fetch rejected, the status not ok or the body
\* no JSON: the catch sets the error, the finally clears the flag.
KioskCreateFailed(r) ==
    /\ role = "kiosk"
    /\ kCreateReqs # <<>>
    /\ r.kind # "ok"
    /\ kiosk' = Commit([kiosk EXCEPT
                   !.error = Some("Failed to start session. Is the server running?"),
                   !.isStarting = FALSE])
    /\ kCreateReqs' = Tail1(kCreateReqs)
    /\ Done("startSession", "failed")
    /\ UNCHANGED <<role, pvars, kMounted, kSocks, kErrTimers, kCaptureReqs, kEndReqs, hvars>>

\* ws.onopen
KioskOnOpen(i) ==
    /\ role = "kiosk"
    /\ i \in DOMAIN kSocks
    /\ kSocks[i].st = "connecting"
    /\ kSocks' = [kSocks EXCEPT ![i].st = "open"]
    /\ kiosk' = Commit([kiosk EXCEPT !.error = None])
    /\ Done("onopen", "kiosk")
    /\ UNCHANGED <<role, pvars, kMounted, kErrTimers, kCreateReqs, kCaptureReqs, kEndReqs, hvars>>

\* The socket reaches CLOSED (the connection failed, the network or the backend
\* closed it, or the closing handshake of close() ended) and ws.onclose runs.
KioskOnClose(i) ==
    /\ role = "kiosk"
    /\ i \in DOMAIN kSocks
    /\ kSocks[i].st \in {"connecting", "open", "closing"}
    /\ kSocks' = Collect(OnCloseSockets(kSocks, i))
    /\ Done("onclose", "kiosk")
    /\ UNCHANGED <<role, pvars, kMounted, kiosk, kErrTimers,
                   kCreateReqs, kCaptureReqs, kEndReqs, hvars>>

\* The reconnect timer set by the onclose of socket i fires: connectWebSocket(sessionId)
\* of the same closure.  No onclose of a reachable state sets the timer (every
\* socket is created by a startSession that closed over a null session), so this
\* callback is a disjunct of no next-state relation below.
KioskReconnectFire(i) ==
    /\ role = "kiosk"
    /\ i \in DOMAIN kSocks
    /\ kSocks[i].timer = Some(KioskReconnectDelay)
    /\ LET fired == [kSocks EXCEPT ![i].timer = None, ![i].tref = FALSE]
       IN /\ Len(ConnectWebSocket(fired, 0, None)) <= MaxSocks
          /\ kSocks' = ConnectWebSocket(fired, kSocks[i].sid, kSocks[i].cap)
    /\ Done("reconnect", "kiosk")
    /\ UNCHANGED <<role, pvars, kMounted, kiosk, kErrTimers,
                   kCreateReqs, kCaptureReqs, kEndReqs, hvars>>

\* What the environment may still send within the bounds.
KioskMessageAllowed(m) ==
    /\ m.type = "phone_connected" => hConn < MaxConn
    /\ m.type = "phone_disconnected" => hDisc < MaxDisc
    /\ (m.type = "photo_ready" /\ IsSome(m.data)) => Len(kiosk.photos) < MaxPhotos
    /\ m.type = "capture_failed" => Cardinality(kErrTimers) < MaxErrTimers

\* ws.onmessage: JSON.parse and handleWebSocketMessage of the render that created
\* the socket; session_ended calls that render's endSession, which awaits the POST
\* only if that render had a session and otherwise tears down at once.
KioskOnMessage(i, m) ==
    /\ role = "kiosk"
    /\ i \in DOMAIN kSocks
    /\ kSocks[i].st = "open"
    /\ KioskMessageAllowed(m)
    /\ LET ended == m.type = "session_ended"
           posts == ended /\ IsSome(kSocks[i].cap)
           tears == ended /\ ~IsSome(kSocks[i].cap)
           k1 == HandleWebSocketMessage(kiosk, m)
       IN /\ kiosk' = Commit(IF tears THEN ResetSession(k1) ELSE k1)
          /\ kEndReqs' = IF posts THEN Append(kEndReqs, Get(kSocks[i].cap).id) ELSE kEndReqs
          /\ kSocks' = IF tears THEN EndSessionSockets(kSocks) ELSE kSocks
          /\ kErrTimers' = IF m.type = "capture_failed" THEN kErrTimers \cup {0} ELSE kErrTimers
          /\ hConn' = IF m.type = "phone_connected" /\ kMounted THEN hConn + 1 ELSE hConn
          /\ hDisc' = IF m.type = "phone_disconnected" /\ kMounted THEN hDisc + 1 ELSE hDisc
          /\ hFloored' = IF /\ m.type = "phone_disconnected" /\ kMounted
                            /\ IsSome(kiosk.session) /\ Get(kiosk.session).phoneCount = 0
                         THEN hFloored + 1 ELSE hFloored
          /\ hPhotoLog' = IF ~kMounted THEN hPhotoLog
                          ELSE IF tears THEN <<>>
                          ELSE IF m.type = "photo_ready" /\ IsSome(m.data)
                               THEN Append(hPhotoLog, Get(m.data))
                          ELSE hPhotoLog
    /\ KDoneMessage(m)
    /\ UNCHANGED <<role, pvars, kMounted, kCreateReqs, kCaptureReqs>>

\* SessionScreen's capture button (disabled while capturing) calls startCapture up
\* to its await; the render that shows the button has a session.
KioskStartCapture ==
    /\ role = "kiosk" /\ kMounted
    /\ kiosk.state = "session" /\ IsSome(kiosk.session)
    /\ kCaptureReqs < MaxCaptureReqs
    /\ kCaptureReqs' = kCaptureReqs + 1
    /\ Done("startCapture", "click")
    /\ UNCHANGED <<role, pvars, kMounted, kiosk, kSocks, kErrTimers, kCreateReqs, kEndReqs, hvars>>

\* startCapture showing the capture as running once the POST has succeeded.
AfterCaptureOptimistic(k, r) ==
    IF r.kind = "ok" THEN [k EXCEPT !.state = "capturing"]
    ELSE [k EXCEPT !.error = Some(CaptureErrorText(r)), !.state = "session",
                   !.countdown = None]

\* The state setters of startCapture after the await: none if the response is ok.
AfterCapture(k, r) ==
    IF r.kind = "ok" THEN k
    ELSE [k EXCEPT !.error = Some(CaptureErrorText(r)), !.state = "session",
                   !.countdown = None]

\* The class of a capture response, for the history.
CaptureOutcome(r) ==
    IF r.kind = "status" /\ IsSome(r.detail) /\ Get(r.detail) # "" THEN "detail" ELSE r.kind

\* startCapture after the await.
KioskCaptureResponse(r) ==
    /\ role = "kiosk"
    /\ kCaptureReqs > 0
    /\ r.kind # "ok" => Cardinality(kErrTimers) < MaxErrTimers
    /\ kiosk' = Commit(AfterCapture(kiosk, r))
    /\ kErrTimers' = IF r.kind = "ok" THEN kErrTimers ELSE kErrTimers \cup {0}
    /\ kCaptureReqs' = kCaptureReqs - 1
    /\ Done("startCapture", CaptureOutcome(r))
    /\ UNCHANGED <<role, pvars, kMounted, kSocks, kCreateReqs, kEndReqs, hvars>>

\* The End Session button calls endSession of a render that has a session: the POST
\* is awaited.
KioskEndSession ==
    /\ role = "kiosk" /\ kMounted
    /\ kiosk.state \in {"session", "capturing"} /\ IsSome(kiosk.session)
    /\ kEndReqs = <<>>
    /\ kEndReqs' = Append(kEndReqs, Get(kiosk.session).id)
    /\ Done("endSession", "click")
    /\ UNCHANGED <<role, pvars, kMounted, kiosk, kSocks, kErrTimers,
                   kCreateReqs, kCaptureReqs, hvars>>

\* The button is not disabled while the POST is in flight: it is pressed again.
KioskEndSessionAgain ==
    /\ role = "kiosk" /\ kMounted
    /\ kiosk.state \in {"session", "capturing"} /\ IsSome(kiosk.session)
    /\ kEndReqs # <<>> /\ Len(kEndReqs) < MaxEndReqs
    /\ kEndReqs' = Append(kEndReqs, Get(kiosk.session).id)
    /\ Done("endSession", "click")
    /\ UNCHANGED <<role, pvars, kMounted, kiosk, kSocks, kErrTimers,
                   kCreateReqs, kCaptureReqs, hvars>>

\* The kiosk is in no-session: no session, no socket in wsRef, the welcome screen.
NoSession == kiosk.session = None /\ Current(kSocks) = {} /\ kiosk.state = "welcome"

\* endSession after the await, whatever the fetch did (a response of any status,
\* or a rejection, which the catch only logs).
KioskEndResponse(r) ==
    /\ role = "kiosk"
    /\ kEndReqs # <<>>
    /\ kEndReqs' = Tail1(kEndReqs)
    /\ kSocks' = EndSessionSockets(kSocks)
    /\ kiosk' = Commit(ResetSession(kiosk))
    /\ hPhotoLog' = IF kMounted THEN <<>> ELSE hPhotoLog
    /\ Done("endSession", IF NoSession THEN "nosession" ELSE r.kind)
    /\ UNCHANGED <<role, pvars, kMounted, kErrTimers, kCreateReqs, kCaptureReqs,
                   hConn, hDisc, hFloored>>

\* setTimeout(() => setError(null), 5000) fires.
KioskErrorTimerFire ==
    /\ role = "kiosk"
    /\ ErrorClearDelay \in kErrTimers
    /\ kErrTimers' = kErrTimers \ {ErrorClearDelay}
    /\ kiosk' = Commit([kiosk EXCEPT !.error = None])
    /\ Done("errorTimer", "kiosk")
    /\ UNCHANGED <<role, pvars, kMounted, kSocks, kCreateReqs, kCaptureReqs, kEndReqs, hvars>>

\* The cleanup of the unmount effect: the socket is closed (the ref keeps it), the
\* timer the ref names is cancelled.
KioskUnmount ==
    /\ role = "kiosk" /\ kMounted
    /\ kMounted' = FALSE
    /\ kSocks' = Collect(ClearTimeout(CloseCurrent(kSocks)))
    /\ Done("unmount", "kiosk")
    /\ UNCHANGED <<role, pvars, kiosk, kErrTimers, kCreateReqs, kCaptureReqs, kEndReqs, hvars>>

\* The ages of the pending reconnect timers.
TimerAges(socks) == {Get(socks[i].timer) : i \in Timers(socks)}

\* Every pending reconnect timer is a second older.
AgeTimers(socks) ==
    [i \in DOMAIN socks |->
        IF IsSome(socks[i].timer)
        THEN [socks[i] EXCEPT !.timer = Some(Get(@) + 1)] ELSE socks[i]]

\* One second passes: no timer is overdue, and every pending timer ages.
KioskTick ==
    /\ role = "kiosk"
    /\ kErrTimers \cup TimerAges(kSocks) # {}
    /\ \A a \in kErrTimers : a < ErrorClearDelay
    /\ \A a \in TimerAges(kSocks) : a < KioskReconnectDelay
    /\ kErrTimers' = {a + 1 : a \in kErrTimers}
    /\ kSocks' = AgeTimers(kSocks)
    /\ Done("tick", "kiosk")
    /\ UNCHANGED <<role, pvars, kMounted, kiosk, kCreateReqs, kCaptureReqs, kEndReqs, hvars>>

SockIds == 1..MaxSocks

\* The callbacks of the session's life: create, socket, end.
KioskLifecycle ==
    \/ KioskStartSession
    \/ KioskSessionCreated
    \/ \E r \in HttpOutcomes : KioskCreateFailed(r)
    \/ \E i \in SockIds : KioskOnOpen(i)
    \/ \E i \in SockIds : KioskOnClose(i)
    \/ KioskEndSession
    \/ \E r \in HttpOutcomes : KioskEndResponse(r)

TypesOf(types) == {m \in KioskMessages : m.type \in types}

\* The kiosk with a backend that sends no events but session_ended, frames that are
\* no JSON and events the kiosk does not know; End is pressed repeatedly, and the
\* component may unmount.
ConnNext ==
    \/ KioskLifecycle
    \/ KioskEndSessionAgain
    \/ KioskUnmount
    \/ \E i \in SockIds, m \in TypesOf({"session_ended", "malformed", "kiosk_connected"}) :
          KioskOnMessage(i, m)

\* ... that sends photos and countdowns.
EndNext ==
    \/ KioskLifecycle
    \/ \E i \in SockIds,
          m \in TypesOf({"photo_ready", "countdown", "session_ended"}) :
          KioskOnMessage(i, m)

\* ... that sends the phone events.
CountNext ==
    \/ KioskLifecycle
    \/ \E i \in SockIds,
          m \in TypesOf({"phone_connected", "phone_disconnected", "session_ended"}) :
          KioskOnMessage(i, m)

\* ... that sends the events of a successful capture, with the capture button; the
\* session ends by the End button.
CaptureNext ==
    \/ KioskLifecycle
    \/ \E i \in SockIds,
          m \in TypesOf({"countdown", "capture_complete"}) :
          KioskOnMessage(i, m)
    \/ KioskStartCapture
    \/ \E r \in HttpOutcomes : KioskCaptureResponse(r)
    \/ KioskErrorTimerFire
    \/ KioskTick

\* ... that sends countdowns and the failure of a capture, with the passing of time.
FailedNext ==
    \/ KioskLifecycle
    \/ \E i \in SockIds, m \in TypesOf({"countdown", "capture_failed"}) :
          KioskOnMessage(i, m)
    \/ KioskErrorTimerFire
    \/ KioskTick

\* The backend ends a capture: capture_complete or capture_failed reaches the kiosk
\* over a socket that is open.
CaptureEnds ==
    \E i \in SockIds, m \in TypesOf({"capture_complete", "capture_failed"}) :
        KioskOnMessage(i, m)

\* ... that counts down and ends every capture, with sockets that may close.
FairNext ==
    \/ KioskLifecycle
    \/ \E i \in SockIds, m \in TypesOf({"countdown"}) : KioskOnMessage(i, m)
    \/ CaptureEnds
    \/ KioskErrorTimerFire
    \/ KioskTick

\* What the event loop and the backend guarantee: a pending response answers, a
\* connecting socket opens, time passes and a due timer fires, and the event that ends
\* a capture is delivered while a socket stays open.  Buttons are pressed or not.
KioskFairness ==
    /\ WF_vars(KioskSessionCreated \/ \E r \in HttpOutcomes : KioskCreateFailed(r))
    /\ WF_vars(\E r \in HttpOutcomes : KioskEndResponse(r))
    /\ WF_vars(\E i \in SockIds : KioskOnOpen(i))
    /\ WF_vars(KioskErrorTimerFire \/ KioskTick)
    /\ WF_vars(CaptureEnds)

\* ... that sends photos.
KioskPhotosNext ==
    \/ KioskLifecycle
    \/ \E i \in SockIds, m \in TypesOf({"photo_ready", "session_ended"}) :
          KioskOnMessage(i, m)

(* ------------------------- phone: the state machine -------------------- *)
MaxPhoneSocks == 2   \* phone sockets not yet collected at once
MaxShortSocks == 3   \* the same, in a behaviour too short for a timer to come due

\* The phone is followed either through the passing of time ("phone") or over a
\* stretch in which no timer comes due ("phone-short").
PhoneRoles == {"phone", "phone-short"}
PhoneSockBound == IF role = "phone" THEN MaxPhoneSocks ELSE MaxShortSocks

PhoneReconnectDelay == 3
PingInterval == 30

\* Close codes the phone sees: normal, going away, abnormal, and the application's.
CloseCodes == {1000, 1001, 1006, 4001, 4004}

\* ws.onclose: event.code !== 1000 && event.code !== 4001 && event.code !== 4004
PhoneReconnects(code) == code # 1000 /\ code # 4001 /\ code # 4004

\* The codes a close event can carry: a connection that never opened fails with
\* 1006, also when close() was called on it; a closing handshake the client began
\* ends with the code sent or is lost; an open socket is closed by the backend or the
\* network with any code.
CodesOf(sock) ==
    IF ~sock.est THEN {1006}
    ELSE IF sock.st = "closing" THEN {1000, 1006}
    ELSE CloseCodes

PhoneMessages ==
    {[type |-> t, data |-> None] :
        t \in {"kiosk_connected", "capture_start", "processing", "capture_complete",
               "session_ended", "pong", "malformed", "phone_connected",
               "session_state", "countdown", "photo_ready"}}
    \cup {[type |-> "session_state", data |-> Some([kioskConnected |-> b, photos |-> ps])] :
            b \in BOOLEAN, ps \in {None, Some(<<>>)}}
    \cup {[type |-> "countdown",
           data |-> Some([value |-> v, photoNumber |-> n, totalPhotos |-> n])] :
            v \in {None} \cup {Some(c) : c \in 0..MaxCountdown}, n \in {0, 2}}
    \cup {[type |-> "photo_ready", data |-> Some(p)] : p \in PhotoPayloads}
    \cup {[type |-> "capture_complete", data |-> Some([stripUrl |-> u])] :
            u \in {"", "/strip1"}}

\* A socket of the phone: est says whether it ever opened; ping is the age of the
\* heartbeat interval its onopen started, pref whether pingIntervalRef names it.
NewPhoneSock(sessionId) ==
    [st |-> "connecting", sid |-> sessionId, est |-> FALSE, cur |-> TRUE,
     timer |-> None, tref |-> FALSE, ping |-> None, pref |-> FALSE]

Pings(socks) == {i \in DOMAIN socks : IsSome(socks[i].ping)}

\* if (pingIntervalRef.current) clearInterval(pingIntervalRef.current)
ClearInterval(socks) ==
    [i \in DOMAIN socks |->
        IF socks[i].pref THEN [socks[i] EXCEPT !.ping = None, !.pref = FALSE] ELSE socks[i]]

PhoneReachable(x) == ~(x.st = "closed" /\ ~x.cur /\ x.timer = None /\ x.ping = None)
PhoneCollect(socks) == SelectSeq(socks, PhoneReachable)

\* connect(): nothing without a session id; else a new socket, which wsRef names.
\* A prior socket is not touched.
Connect(socks, sessionId) ==
    IF IsSome(sessionId)
    THEN Append(PhoneCollect(DropRef(socks)), NewPhoneSock(Get(sessionId)))
    ELSE socks

\* The cleanup of the effect: the timer and the interval the refs name are
\* cancelled, the socket wsRef names is closed with 1000 and forgotten.
Cleanup(socks) == PhoneCollect(DropRef(CloseCurrent(ClearInterval(ClearTimeout(socks)))))

\* A render gives handleMessage, hence connect, a new identity: the effect's cleanup
\* runs, then the effect.
EffectRerun(socks, sessionId) == Connect(Cleanup(socks), sessionId)

\* The Photo the phone builds from a photo_ready payload.
PhonePhoto(d) ==
    [id |-> d.id, sessionId |-> d.sessionId, sequence |-> d.sequence,
     webUrl |-> d.webUrl, thumbnailUrl |-> d.thumbnailUrl]

\* (n as number) || 1
OrOne(n) == IF n = 0 THEN 1 ELSE n

\* capture_complete with the strip left where it was.
IgnoreStrip(stripUrl, data) == stripUrl

\* if (message.data?.stripUrl) setStripUrl(message.data.stripUrl as string)
RecordStrip(stripUrl, data) ==
    IF IsSome(data) /\ Get(data).stripUrl # "" THEN Some(Get(data).stripUrl) ELSE stripUrl

\* The state setters of the phone's handleMessage.
HandleMessage(p, m) ==
    CASE m.type = "session_state" /\ IsSome(m.data) ->
            [p EXCEPT !.kioskConnected = Get(m.data).kioskConnected,
                      !.photos = IF IsSome(Get(m.data).photos) THEN Get(Get(m.data).photos) ELSE @]
      [] m.type = "kiosk_connected" ->
            [p EXCEPT !.kioskConnected = TRUE]
      [] m.type = "countdown" /\ IsSome(m.data) ->
            [p EXCEPT !.countdown = Get(m.data).value,
                      !.photoNumber = OrOne(Get(m.data).photoNumber),
                      !.totalPhotos = OrOne(Get(m.data).totalPhotos),
                      !.isCapturing = TRUE, !.isProcessing = FALSE]
      [] m.type = "processing" ->
            [p EXCEPT !.countdown = None, !.isCapturing = TRUE, !.isProcessing = TRUE]
      [] m.type = "photo_ready" /\ IsSome(m.data) ->
            [p EXCEPT !.photos = AppendPhoto(@, PhonePhoto(Get(m.data)))]
      [] m.type = "capture_complete" ->
            [p EXCEPT !.isCapturing = FALSE, !.isProcessing = FALSE, !.countdown = None,
                      !.stripUrl = RecordStrip(@, m.data)]
      [] m.type = "session_ended" ->
            [p EXCEPT !.photos = <<>>, !.isCapturing = FALSE, !.countdown = None,
                      !.kioskConnected = FALSE]
      [] OTHER -> p

\* A setter given a new array renders even if the elements are the old ones.
SetsNewArray(m) ==
    \/ m.type = "session_state" /\ IsSome(m.data) /\ IsSome(Get(m.data).photos)
    \/ m.type = "photo_ready" /\ IsSome(m.data)
    \/ m.type = "session_ended"

\* ws.onmessage passing on what JSON.parse could not read.
DeliveredUnparsed(m) == m.type # "pong"

\* ws.onmessage passing on pong.
DeliveredWithPong(m) == m.type # "malformed"

\* ws.onmessage: a frame that is no JSON is dropped, pong is not passed on.
Delivered(m) == m.type \notin {"malformed", "pong"}

\* The screens with showPhotos not looking at showProcessing.
ScreensPhotosOverProcessing(p) ==
    LET showCountdown == IsSome(p.countdown) /\ Get(p.countdown) > 0
        showProcessing == p.isProcessing /\ ~showCountdown
        showPhotos == Len(p.photos) > 0 /\ ~showCountdown
        showWaiting == ~showCountdown /\ ~showProcessing /\ ~showPhotos
    IN {x \in {"countdown", "processing", "photos", "waiting"} :
            \/ x = "countdown" /\ showCountdown
            \/ x = "processing" /\ showProcessing
            \/ x = "photos" /\ showPhotos
            \/ x = "waiting" /\ showWaiting}

\* The screens with the photos taking precedence over processing.
ScreensPhotosFirst(p) ==
    LET showCountdown == IsSome(p.countdown) /\ Get(p.countdown) > 0
        showPhotos == Len(p.photos) > 0 /\ ~showCountdown
        showProcessing == p.isProcessing /\ ~showCountdown /\ ~showPhotos
        showWaiting == ~showCountdown /\ ~showProcessing /\ ~showPhotos
    IN {x \in {"countdown", "processing", "photos", "waiting"} :
            \/ x = "countdown" /\ showCountdown
            \/ x = "processing" /\ showProcessing
            \/ x = "photos" /\ showPhotos
            \/ x = "waiting" /\ showWaiting}

\* The screens App renders for a phone with a session id.
Screens(p) ==
    LET showCountdown == IsSome(p.countdown) /\ Get(p.countdown) > 0
        showProcessing == p.isProcessing /\ ~showCountdown
        showPhotos == Len(p.photos) > 0 /\ ~showCountdown /\ ~showProcessing
        showWaiting == ~showCountdown /\ ~showProcessing /\ ~showPhotos
    IN {x \in {"countdown", "processing", "photos", "waiting"} :
            \/ x = "countdown" /\ showCountdown
            \/ x = "processing" /\ showProcessing
            \/ x = "photos" /\ showPhotos
            \/ x = "waiting" /\ showWaiting}

PhoneInit ==
    /\ pPhase = "initial"
    /\ phone = [sessionId |-> None, photos |-> <<>>, countdown |-> None,
                photoNumber |-> 1, totalPhotos |-> 1, isCapturing |-> FALSE,
                isProcessing |-> FALSE, kioskConnected |-> FALSE, stripUrl |-> None,
                isConnected |-> FALSE]
    /\ pSocks = <<>>

\* The history of a phone callback: its input, and whether it opened a socket.
PDone(op, arg, code, opened) ==
    last' = [op |-> op, arg |-> arg, code |-> code, opened |-> opened, data |-> None,
             fwd |-> FALSE, sent |-> 0]

\* The history of ws.onmessage: the message's type and payload, and whether onMessage
\* was called with it.
PDoneMessage(m, opened) ==
    last' = [op |-> "onmessage", arg |-> m.type, code |-> 0, opened |-> opened,
             data |-> m.data, fwd |-> Delivered(m), sent |-> 0]

\* The state after a callback set the React state to p: if the component is mounted
\* and a setter changed a value, it renders and the effect runs again.
Renders(p, newArray) == pPhase = "mounted" /\ (p # phone \/ newArray)
AfterRender(socks, p, newArray) ==
    IF Renders(p, newArray) THEN EffectRerun(socks, p.sessionId) ELSE socks
PCommit(p) == IF pPhase = "mounted" THEN p ELSE phone

(* ---------------------------- phone: actions --------------------------- *)
\* The mount: the first effect reads the session id from the URL, the second calls
\* connect, which returns without one; with an id the render that follows connects.
PhoneMount(sessionId) ==
    /\ role \in PhoneRoles
    /\ pPhase = "initial"
    /\ pPhase' = "mounted"
    /\ phone' = [phone EXCEPT !.sessionId = sessionId]
    /\ pSocks' = Connect(pSocks, sessionId)
    /\ PDone("mount", "", 0, IsSome(sessionId))
    /\ UNCHANGED <<role, kvars, hvars>>

\* ws.onopen: setIsConnected(true), the heartbeat interval starts and
\* pingIntervalRef names it.
OnOpenSockets(socks, i) ==
    [j \in DOMAIN socks |->
        IF j = i THEN [socks[j] EXCEPT !.st = "open", !.est = TRUE,
                                       !.ping = Some(0), !.pref = TRUE]
        ELSE [socks[j] EXCEPT !.pref = FALSE]]

\* setIsConnected(true)
OnOpenState(p) == [p EXCEPT !.isConnected = TRUE]

PhoneOnOpen(i) ==
    /\ role \in PhoneRoles
    /\ i \in DOMAIN pSocks
    /\ pSocks[i].st = "connecting"
    /\ LET p == OnOpenState(phone)
           socks == AfterRender(OnOpenSockets(pSocks, i), p, FALSE)
       IN /\ Len(socks) <= PhoneSockBound
          /\ phone' = PCommit(p)
          /\ pSocks' = socks
          /\ PDone("onopen", "", 0, Renders(p, FALSE))
    /\ UNCHANGED <<role, kvars, pPhase, hvars>>

\* ws.onclose with event.code: setIsConnected(false); the interval pingIntervalRef
\* names is cleared and the ref nulled; unless the code is 1000, 4001 or 4004 a
\* timer is set and reconnectTimeoutRef names it.
PhoneOnCloseSockets(socks, i, code) ==
    LET cleared == ClearInterval(socks)
    IN IF PhoneReconnects(code)
       THEN [j \in DOMAIN cleared |->
               IF j = i THEN [cleared[j] EXCEPT !.st = "closed", !.timer = Some(0), !.tref = TRUE]
               ELSE [cleared[j] EXCEPT !.tref = FALSE]]
       ELSE [cleared EXCEPT ![i].st = "closed"]

PhoneOnClose(i, code) ==
    /\ role \in PhoneRoles
    /\ i \in DOMAIN pSocks
    /\ pSocks[i].st \in {"connecting", "open", "closing"}
    /\ code \in CodesOf(pSocks[i])
    /\ LET p == [phone EXCEPT !.isConnected = FALSE]
           socks == AfterRender(PhoneCollect(PhoneOnCloseSockets(pSocks, i, code)), p, FALSE)
       IN /\ Len(socks) <= PhoneSockBound
          /\ phone' = PCommit(p)
          /\ pSocks' = socks
          /\ PDone("onclose", pSocks[i].st, code, Renders(p, FALSE))
    /\ UNCHANGED <<role, kvars, pPhase, hvars>>

\* ws.onopen of socket i and ws.onclose of socket j run before React renders: the
\* setters are batched, and the render that follows sees isConnected as the last of
\* them left it.
PhoneOpenCloseBatch(i, j, code) ==
    /\ role \in PhoneRoles
    /\ i \in DOMAIN pSocks /\ j \in DOMAIN pSocks /\ i # j
    /\ pSocks[i].st = "connecting"
    /\ pSocks[j].st \in {"connecting", "open", "closing"}
    /\ code \in CodesOf(pSocks[j])
    /\ LET p == [OnOpenState(phone) EXCEPT !.isConnected = FALSE]
           opened == OnOpenSockets(pSocks, i)
           socks == AfterRender(PhoneCollect(PhoneOnCloseSockets(opened, j, code)), p, FALSE)
       IN /\ Len(socks) <= PhoneSockBound
          /\ phone' = PCommit(p)
          /\ pSocks' = socks
          /\ PDone("onclose", pSocks[j].st, code, Renders(p, FALSE))
    /\ UNCHANGED <<role, kvars, pPhase, hvars>>

\* The reconnect timer set by the onclose of socket i fires: connect().
PhoneReconnectFire(i) ==
    /\ role = "phone"
    /\ i \in DOMAIN pSocks
    /\ pSocks[i].timer = Some(PhoneReconnectDelay)
    /\ LET socks == Connect([pSocks EXCEPT ![i].timer = None, ![i].tref = FALSE],
                            Some(pSocks[i].sid))
       IN /\ Len(socks) <= PhoneSockBound
          /\ pSocks' = socks
    /\ PDone("reconnect", "", 0, TRUE)
    /\ UNCHANGED <<role, kvars, pPhase, phone, hvars>>

\* The heartbeat interval started by socket i fires: a ping is sent if that socket
\* is OPEN.
PhonePing(i) ==
    /\ role = "phone"
    /\ i \in DOMAIN pSocks
    /\ pSocks[i].ping = Some(PingInterval)
    /\ pSocks' = [pSocks EXCEPT ![i].ping = Some(0)]
    /\ last' = [op |-> "ping", arg |-> pSocks[i].st, code |-> 0, opened |-> FALSE,
                data |-> None, fwd |-> FALSE,
                sent |-> IF pSocks[i].st = "open" THEN 1 ELSE 0]
    /\ UNCHANGED <<role, kvars, pPhase, phone, hvars>>

PhoneMessageAllowed(m) ==
    (m.type = "photo_ready" /\ IsSome(m.data)) => Len(phone.photos) < MaxPhotos

\* ws.onmessage of an OPEN socket, p being the state the setters of onMessage make.
PhoneFrame(i, m, p) ==
    /\ role \in PhoneRoles
    /\ i \in DOMAIN pSocks
    /\ pSocks[i].st = "open"
    /\ PhoneMessageAllowed(m)
    /\ LET newArray == Delivered(m) /\ SetsNewArray(m)
           socks == AfterRender(pSocks, p, newArray)
       IN /\ Len(socks) <= PhoneSockBound
          /\ phone' = PCommit(p)
          /\ pSocks' = socks
          /\ hPhotoLog' = IF pPhase # "mounted" \/ ~Delivered(m) THEN hPhotoLog
                          ELSE IF m.type = "photo_ready" /\ IsSome(m.data)
                               THEN Append(hPhotoLog, Get(m.data))
                          ELSE IF m.type = "session_ended" THEN <<>>
                          ELSE IF m.type = "session_state" /\ IsSome(m.data)
                                  /\ IsSome(Get(m.data).photos) THEN <<>>
                          ELSE hPhotoLog
          /\ PDoneMessage(m, Renders(p, newArray))
    /\ UNCHANGED <<role, kvars, pPhase, hConn, hDisc, hFloored>>

PhoneOnMessage(i, m) ==
    PhoneFrame(i, m, IF Delivered(m) THEN HandleMessage(phone, m) ELSE phone)

\* The readyState of the socket wsRef names, "absent" if it names none.
CurrentReadyState(socks) ==
    IF Current(socks) = {} THEN "absent"
    ELSE socks[CHOOSE i \in Current(socks) : TRUE].st

\* sendMessage sending whenever wsRef names a socket.
FramesSentUnguarded(readyState) == IF readyState = "absent" THEN 0 ELSE 1

\* The frames sendMessage hands to ws.send: one if the socket is OPEN.
FramesSent(readyState) == IF readyState = "open" THEN 1 ELSE 0

\* sendMessage(message), called by a holder of the hook's result: it sets no state.
PhoneSendMessage ==
    /\ role \in PhoneRoles
    /\ pPhase = "mounted"
    /\ last' = [op |-> "sendMessage", arg |-> CurrentReadyState(pSocks), code |-> 0,
                opened |-> FALSE, data |-> None, fwd |-> FALSE,
                sent |-> FramesSent(CurrentReadyState(pSocks))]
    /\ UNCHANGED <<role, kvars, pPhase, phone, pSocks, hvars>>

\* The component unmounts: the effect's cleanup runs.
PhoneUnmount ==
    /\ role \in PhoneRoles
    /\ pPhase = "mounted"
    /\ pPhase' = "unmounted"
    /\ pSocks' = Cleanup(pSocks)
    /\ PDone("unmount", "", 0, FALSE)
    /\ UNCHANGED <<role, kvars, phone, hvars>>

PingAges(socks) == {Get(socks[i].ping) : i \in Pings(socks)}

AgePhoneTimers(socks) ==
    [i \in DOMAIN socks |->
        [socks[i] EXCEPT !.timer = IF IsSome(@) THEN Some(Get(@) + 1) ELSE @,
                         !.ping = IF IsSome(@) THEN Some(Get(@) + 1) ELSE @]]

\* One second passes: no timer is overdue, and every pending timer ages.
PhoneTick ==
    /\ role = "phone"
    /\ TimerAges(pSocks) \cup PingAges(pSocks) # {}
    /\ \A a \in TimerAges(pSocks) : a < PhoneReconnectDelay
    /\ \A a \in PingAges(pSocks) : a < PingInterval
    /\ pSocks' = AgePhoneTimers(pSocks)
    /\ PDone("tick", "", 0, FALSE)
    /\ UNCHANGED <<role, kvars, pPhase, phone, hvars>>

PhoneTypesOf(types) == {m \in PhoneMessages : m.type \in types}

\* The phone's mounting and the callbacks of its sockets when the backend closes
\* none of its own accord.
PhoneOwnSockets ==
    \/ \E sid \in {None, Some("s1")} : PhoneMount(sid)
    \/ \E i \in DOMAIN pSocks : PhoneOnOpen(i)
    \/ \E i \in DOMAIN pSocks, code \in CloseCodes :
          pSocks[i].st = "closing" /\ PhoneOnClose(i, code)

\* The callbacks of the phone's sockets and of its mounting.
PhoneSockets ==
    \/ \E sid \in {None, Some("s1")} : PhoneMount(sid)
    \/ \E i \in DOMAIN pSocks : PhoneOnOpen(i)
    \/ \E i \in DOMAIN pSocks, code \in CloseCodes : PhoneOnClose(i, code)
    \/ PhoneUnmount

\* The timers, and the passing of time.
PhoneTimers ==
    \/ \E i \in DOMAIN pSocks : PhoneReconnectFire(i)
    \/ \E i \in DOMAIN pSocks : PhonePing(i)
    \/ PhoneTick

\* The phone's transport, with a backend that tells of the kiosk and of the
\* session's end.
PhoneNext ==
    \/ PhoneSockets
    \/ PhoneTimers
    \/ \E i \in DOMAIN pSocks,
          m \in PhoneTypesOf({"kiosk_connected", "session_ended", "pong", "malformed"}) :
          PhoneOnMessage(i, m)

\* The phone with a backend that sends photos, up to the moment the first timer is due.
PhonePhotosNext ==
    \/ PhoneSockets
    \/ \E i \in DOMAIN pSocks,
          m \in PhoneTypesOf({"photo_ready", "session_state", "session_ended"}) :
          PhoneOnMessage(i, m)

(* ------------- kiosk: the variant with the idle screen ----------------- *)
\* The second App of kiosk/src/App.tsx (states idle, session, capturing, reviewing)
\* has no starting flag: IdleScreen's button calls createSession whenever the idle
\* screen is shown.  Its connectWebSocket, ws.onopen, ws.onclose and the start of its
\* endSession are those of the first App.
MaxCreateReqs == 2   \* POST /sessions requests in flight at once

IdleKioskInit ==
    /\ kMounted = TRUE
    /\ kiosk = [state |-> "idle", session |-> None, countdown |-> None,
                photos |-> <<>>, stripUrl |-> None, error |-> None]
    /\ kSocks = <<>>
    /\ kErrTimers = {}
    /\ kCreateReqs = <<>>
    /\ kCaptureReqs = 0
    /\ kEndReqs = <<>>
    /\ hConn = 0
    /\ hDisc = 0
    /\ hFloored = 0
    /\ hPhotoLog = <<>>

\* The state setters at the end of this App's endSession.
ResetToIdle(k) ==
    [k EXCEPT !.session = None, !.photos = <<>>, !.stripUrl = None,
              !.countdown = None, !.state = "idle"]

\* IdleScreen's button calls createSession up to its await.
IdleCreateSession ==
    /\ role = "kiosk" /\ kMounted
    /\ kiosk.state = "idle"
    /\ Len(kCreateReqs) < MaxCreateReqs
    /\ kiosk' = [kiosk EXCEPT !.error = None]
    /\ kCreateReqs' = Append(kCreateReqs, kiosk.session)
    /\ Done("createSession", "click")
    /\ UNCHANGED <<role, pvars, kMounted, kSocks, kErrTimers, kCaptureReqs, kEndReqs, hvars>>

\* createSession after the await, the response being ok with a JSON body.
IdleSessionCreated ==
    /\ role = "kiosk"
    /\ kCreateReqs # <<>>
    /\ Len(ConnectWebSocket(kSocks, 0, None)) <= MaxSocks
    /\ LET id == MinOf(FreshSids)
       IN /\ kiosk' = Commit([kiosk EXCEPT
                         !.session = Some([id |-> id, phoneCount |-> 0]),
                         !.photos = <<>>, !.stripUrl = None, !.state = "session"])
          /\ kSocks' = ConnectWebSocket(kSocks, id, Head(kCreateReqs))
    /\ kCreateReqs' = Tail1(kCreateReqs)
    /\ hConn' = 0 /\ hDisc' = 0 /\ hFloored' = 0 /\ hPhotoLog' = <<>>
    /\ Done("createSession", "ok")
    /\ UNCHANGED <<role, pvars, kMounted, kErrTimers, kCaptureReqs, kEndReqs>>

\* createSession after the await, the fetch rejected, the status not ok or the body
\* no JSON.
IdleCreateFailed(r) ==
    /\ role = "kiosk"
    /\ kCreateReqs # <<>>
    /\ r.kind # "ok"
    /\ kiosk' = Commit([kiosk EXCEPT
                   !.error = Some("Failed to create session. Is the server running?")])
    /\ kCreateReqs' = Tail1(kCreateReqs)
    /\ Done("createSession", "failed")
    /\ UNCHANGED <<role, pvars, kMounted, kSocks, kErrTimers, kCaptureReqs, kEndReqs, hvars>>

\* This App's endSession after the await.
IdleEndResponse(r) ==
    /\ role = "kiosk"
    /\ kEndReqs # <<>>
    /\ kEndReqs' = Tail1(kEndReqs)
    /\ kSocks' = EndSessionSockets(kSocks)
    /\ kiosk' = Commit(ResetToIdle(kiosk))
    /\ hPhotoLog' = IF kMounted THEN <<>> ELSE hPhotoLog
    /\ Done("endSession", r.kind)
    /\ UNCHANGED <<role, pvars, kMounted, kErrTimers, kCreateReqs, kCaptureReqs,
                   hConn, hDisc, hFloored>>

\* The session's life in the App with the idle screen.
IdleNext ==
    \/ IdleCreateSession
    \/ IdleSessionCreated
    \/ \E r \in HttpOutcomes : IdleCreateFailed(r)
    \/ \E i \in SockIds : KioskOnOpen(i)
    \/ \E i \in SockIds : KioskOnClose(i)
    \/ KioskEndSession
    \/ \E r \in HttpOutcomes : IdleEndResponse(r)

(* ------------- phone: the variant without the processing screen -------- *)
\* The second App of frontend/src/App.tsx has no photoNumber, totalPhotos and
\* isProcessing; it uses the same useWebSocket.
PlainPhoneInit ==
    /\ pPhase = "initial"
    /\ phone = [sessionId |-> None, photos |-> <<>>, countdown |-> None,
                isCapturing |-> FALSE, kioskConnected |-> FALSE, stripUrl |-> None,
                isConnected |-> FALSE]
    /\ pSocks = <<>>

\* The state setters of its handleMessage.
HandleMessagePlain(p, m) ==
    CASE m.type = "session_state" /\ IsSome(m.data) ->
            [p EXCEPT !.kioskConnected = Get(m.data).kioskConnected,
                      !.photos = IF IsSome(Get(m.data).photos) THEN Get(Get(m.data).photos) ELSE @]
      [] m.type = "kiosk_connected" ->
            [p EXCEPT !.kioskConnected = TRUE]
      [] m.type = "countdown" /\ IsSome(m.data) ->
            [p EXCEPT !.countdown = Get(m.data).value, !.isCapturing = TRUE]
      [] m.type = "capture_start" ->
            [p EXCEPT !.countdown = None]
      [] m.type = "photo_ready" /\ IsSome(m.data) ->
            [p EXCEPT !.photos = AppendPhoto(@, PhonePhoto(Get(m.data)))]
      [] m.type = "capture_complete" ->
            [p EXCEPT !.isCapturing = FALSE, !.countdown = None,
                      !.stripUrl = RecordStrip(@, m.data)]
      [] m.type = "session_ended" ->
            [p EXCEPT !.photos = <<>>, !.isCapturing = FALSE, !.countdown = None,
                      !.kioskConnected = FALSE]
      [] OTHER -> p

PlainOnMessage(i, m) ==
    PhoneFrame(i, m, IF Delivered(m) THEN HandleMessagePlain(phone, m) ELSE phone)

\* That phone with a backend that sends the events of a capture, up to the moment the
\* first timer is due.
PlainNext ==
    \/ PhoneOwnSockets
    \/ \E i \in DOMAIN pSocks,
          m \in PhoneTypesOf({"countdown", "capture_start", "photo_ready",
                              "capture_complete", "session_ended"}) :
          PlainOnMessage(i, m)

(* --------------------- both clients: a capture's events ---------------- *)
\* The kiosk with a backend that sends the events of a capture with its photos.
KioskShootNext ==
    \/ KioskLifecycle
    \/ \E i \in SockIds, m \in TypesOf({"countdown", "photo_ready", "capture_complete"}) :
          KioskOnMessage(i, m)

\* The phone with a backend that sends the events of a capture and the session's end
\* and closes no socket of its own accord, up to the moment the first timer is due.
PhoneShootNext ==
    \/ PhoneOwnSockets
    \/ \E i \in DOMAIN pSocks,
          m \in PhoneTypesOf({"countdown", "processing", "capture_start", "photo_ready",
                              "capture_complete", "session_ended"}) :
          PhoneOnMessage(i, m)

\* The kiosk with that backend and the capture button, the POST answering 2xx.
OkOutcomes == {r \in HttpOutcomes : r.kind = "ok"}
CaptureEvents == TypesOf({"countdown", "photo_ready", "capture_complete"})
KioskOrderNext ==
    \/ KioskShootNext
    \/ KioskStartCapture
    \/ \E r \in OkOutcomes : KioskCaptureResponse(r)

\* Both clients with a backend that sends, among events, frames that are no JSON and,
\* to the phone, pong.
KioskFramesNext ==
    \/ KioskLifecycle
    \/ \E i \in SockIds, m \in TypesOf({"malformed", "photo_ready", "kiosk_connected"}) :
          KioskOnMessage(i, m)
PhoneFramesNext ==
    \/ PhoneOwnSockets
    \/ \E i \in DOMAIN pSocks,
          m \in PhoneTypesOf({"malformed", "pong", "photo_ready", "kiosk_connected",
                              "capture_start"}) :
          PhoneOnMessage(i, m)

\* The phone whose holder calls sendMessage, with a backend that tells of the kiosk,
\* up to the moment the first timer is due.
PhoneSendNext ==
    \/ PhoneSockets
    \/ PhoneSendMessage
    \/ \E i \in DOMAIN pSocks, m \in PhoneTypesOf({"kiosk_connected", "session_ended"}) :
          PhoneOnMessage(i, m)

\* The phone's transport when two socket callbacks may run before React renders, with
\* a backend that tells of the kiosk, up to the moment the first timer is due.
PhoneBatchNext ==
    \/ PhoneSockets
    \/ \E i \in DOMAIN pSocks, j \in DOMAIN pSocks, code \in CloseCodes :
          PhoneOpenCloseBatch(i, j, code)
    \/ \E i \in DOMAIN pSocks, m \in PhoneTypesOf({"kiosk_connected", "session_ended"}) :
          PhoneOnMessage(i, m)

\* The state setters of the frames ms, handled in their order of arrival.
RECURSIVE KioskAfter(_, _)
KioskAfter(k, ms) ==
    IF ms = <<>> THEN k ELSE KioskAfter(HandleWebSocketMessage(k, Head(ms)), Tail(ms))

RECURSIVE PhoneAfter(_, _)
PhoneAfter(p, ms) ==
    IF ms = <<>> THEN p
    ELSE PhoneAfter(IF Delivered(Head(ms)) THEN HandleMessage(p, Head(ms)) ELSE p, Tail(ms))

\* The kiosk once startSession has succeeded, the phone once it has read its session id.
KioskInSession ==
    [state |-> "session", session |-> Some([id |-> 1, phoneCount |-> 0]),
     countdown |-> None, photos |-> <<>>, error |-> None, isStarting |-> FALSE]
PhoneInSession ==
    [sessionId |-> Some("s1"), photos |-> <<>>, countdown |-> None,
     photoNumber |-> 1, totalPhotos |-> 1, isCapturing |-> FALSE,
     isProcessing |-> FALSE, kioskConnected |-> FALSE, stripUrl |-> None,
     isConnected |-> FALSE]

\* A capture of one photo as the backend reports it: countdown 3, 2, 1, the photo with
\* sequence 1, capture_complete.
ShotPayload == CHOOSE p \in PhotoPayloads : p.sequence = 1
KioskShot ==
    << [type |-> "countdown", data |-> Some([value |-> Some(3)])],
       [type |-> "countdown", data |-> Some([value |-> Some(2)])],
       [type |-> "countdown", data |-> Some([value |-> Some(1)])],
       [type |-> "photo_ready", data |-> Some(ShotPayload)],
       [type |-> "capture_complete", data |-> None] >>
PhoneCountdown(v) ==
    [type |-> "countdown",
     data |-> Some([value |-> Some(v), photoNumber |-> 1, totalPhotos |-> 1])]
PhoneShot ==
    << PhoneCountdown(3), PhoneCountdown(2), PhoneCountdown(1),
       [type |-> "photo_ready", data |-> Some(ShotPayload)],
       [type |-> "capture_complete", data |-> Some([stripUrl |-> ""])] >>

InitVars ==
    /\ KioskInit
    /\ PhoneInit
    /\ last = [op |-> "init", arg |-> "", code |-> 0, opened |-> FALSE, data |-> None,
             fwd |-> FALSE, sent |-> 0]

KioskStart == role = "kiosk" /\ InitVars
PhoneStart == role = "phone" /\ InitVars
PhotosStart == role \in {"kiosk", "phone-short"} /\ InitVars
IdleStart ==
    /\ role = "kiosk"
    /\ IdleKioskInit
    /\ PhoneInit
    /\ last = [op |-> "init", arg |-> "", code |-> 0, opened |-> FALSE, data |-> None,
             fwd |-> FALSE, sent |-> 0]

SendStart == role = "phone-short" /\ InitVars
PlainStart ==
    /\ role = "phone-short"
    /\ KioskInit
    /\ PlainPhoneInit
    /\ last = [op |-> "init", arg |-> "", code |-> 0, opened |-> FALSE, data |-> None,
               fwd |-> FALSE, sent |-> 0]

SpecConn == KioskStart /\ [][ConnNext]_vars
SpecEnd == KioskStart /\ [][EndNext]_vars
SpecCount == KioskStart /\ [][CountNext]_vars
SpecCapture == KioskStart /\ [][CaptureNext]_vars
SpecPhone == PhoneStart /\ [][PhoneNext]_vars
SpecPhotos == PhotosStart /\ [][KioskPhotosNext \/ PhonePhotosNext]_vars
SpecIdle == IdleStart /\ [][IdleNext]_vars
SpecOrder == KioskStart /\ [][KioskOrderNext]_vars
SpecFrames == PhotosStart /\ [][KioskFramesNext \/ PhoneFramesNext]_vars
SpecSend == SendStart /\ [][PhoneSendNext]_vars
SpecPlain == PlainStart /\ [][PlainNext]_vars
SpecFailed == KioskStart /\ [][FailedNext]_vars
SpecBatch == SendStart /\ [][PhoneBatchNext]_vars
SpecFair == KioskStart /\ [][FairNext]_vars /\ KioskFairness
SpecShoot == PhotosStart /\ [][KioskShootNext \/ PhoneShootNext]_vars

(* ------------------------------- claims -------------------------------- *)
\* C1: a close of the phone's socket with a code other than 1000, 4001 and 4004
\* leaves exactly one reconnect timer, newly set and named by the ref, and opens no
\* socket before that timer fires; a close with 1000, 4001 or 4004 opens no socket.
C1_ReconnectPolicy ==
    last.op = "onclose" =>
        /\ ~last.opened
        /\ PhoneReconnects(last.code) =>
              Cardinality({i \in Timers(pSocks) :
                              pSocks[i].timer = Some(0) /\ pSocks[i].tref}) = 1

\* C2: in every reachable state each client has at most one socket that is
\* connecting or open.
C2_OneLiveSocket ==
    /\ Cardinality(Live(kSocks)) <= 1
    /\ Cardinality(Live(pSocks)) <= 1

\* C3: after the phone's cleanup at unmount no reconnect timer and no heartbeat
\* interval is pending, and no callback opens a socket.
C3_CleanupIsFinal ==
    pPhase = "unmounted" =>
        /\ Timers(pSocks) = {}
        /\ Pings(pSocks) = {}
        /\ ~last.opened

\* C4: while the kiosk has a session, a closed socket of that session that wsRef
\* still names has its reconnect timer pending.
C4_KioskReconnectScheduled ==
    \A i \in DOMAIN kSocks :
        (/\ kMounted
         /\ kSocks[i].st = "closed" /\ kSocks[i].cur
         /\ IsSome(kiosk.session) /\ Get(kiosk.session).id = kSocks[i].sid)
        => IsSome(kSocks[i].timer)

\* C5: when endSession has run to its end, whatever the POST did, the session is
\* null, the photo list empty, the countdown null, the screen welcome, wsRef names no
\* socket, no socket is connecting or open, and no reconnect timer is pending.
C5_EndSessionTearsDown ==
    last.op = "endSession" =>
        /\ kiosk.session = None
        /\ kiosk.photos = <<>>
        /\ kiosk.countdown = None
        /\ kiosk.state = "welcome"
        /\ Current(kSocks) = {}
        /\ Live(kSocks) = {}
        /\ Timers(kSocks) = {}

\* C5 (case): endSession ran to its end after its fetch was rejected.
C5_Witness == last.op = "endSession" /\ last.arg = "reject"

C7_PhoneCountNonNegative ==
    IsSome(kiosk.session) => Get(kiosk.session).phoneCount >= 0

\* C7 (case): two phone_connected and three phone_disconnected, the last of them at
\* the end, leave phoneCount 0.
C7_Witness ==
    /\ IsSome(kiosk.session) /\ Get(kiosk.session).phoneCount = 0
    /\ hConn = 2 /\ hDisc = 3 /\ hFloored = 1
    /\ last.op = "onmessage" /\ last.arg = "phone_disconnected"

C10_FailedCapture ==
    (kMounted /\ last.op = "startCapture" /\ last.arg # "ok") =>
        /\ kiosk.error = Some(IF last.arg = "detail" THEN "camera busy"
                              ELSE "Failed to start capture")
        /\ kiosk.state = "session"
        /\ kiosk.countdown = None
        /\ 0 \in kErrTimers

\* C11: when startSession has handled a failure of POST /sessions, an error is
\* shown, the screen is welcome, the session null, no socket is connecting or open,
\* and the starting flag is false.
C11_FailedCreate ==
    (kMounted /\ last.op = "startSession" /\ last.arg = "failed") =>
        /\ IsSome(kiosk.error)
        /\ kiosk.state = "welcome"
        /\ kiosk.session = None
        /\ Live(kSocks) = {}
        /\ ~kiosk.isStarting

\* C12: at most one POST /sessions is in flight at any time.
C12_OneCreateInFlight == Len(kCreateReqs) <= 1

C14_OrderTolerance ==
    (role = "kiosk" /\ kCaptureReqs > 0) =>
        \A r \in OkOutcomes, m \in CaptureEvents :
            HandleWebSocketMessage(AfterCapture(kiosk, r), m)
                = AfterCapture(HandleWebSocketMessage(kiosk, m), r)

\* capture_complete has been handled, a photo being held, while the POST capture was
\* still in flight.
C14_Witness ==
    /\ role = "kiosk" /\ kMounted /\ kCaptureReqs > 0
    /\ last.op = "onmessage" /\ last.arg = "capture_complete"
    /\ kiosk.photos # <<>> /\ kiosk.state = "session"

\* C15: a frame that is no JSON is not passed to the message handler and changes
\* nothing of either client (its state, its sockets, its timers); the socket it came on
\* stays open, so that later frames are handled.
C15_MalformedDropped ==
    [][(last'.op = "onmessage" /\ last'.arg = "malformed") =>
          /\ kiosk' = kiosk /\ kSocks' = kSocks /\ kErrTimers' = kErrTimers
          /\ phone' = phone /\ pSocks' = pSocks /\ ~last'.fwd
          /\ role = "kiosk" => \E i \in DOMAIN kSocks' : kSocks'[i].st = "open"
          /\ role \in PhoneRoles => \E i \in DOMAIN pSocks' : pSocks'[i].st = "open"]_vars

\* The phone, holding a photo, has just dropped a frame that is no JSON.
C15_Witness ==
    /\ role \in PhoneRoles /\ pPhase = "mounted"
    /\ last.op = "onmessage" /\ last.arg = "malformed"
    /\ phone.photos # <<>> /\ phone.kioskConnected

\* C16: a call of sendMessage changes no state of the phone; it hands one frame to
\* the socket if the socket wsRef names is open, and none if wsRef names no socket or
\* one that is connecting, closing or closed.
C16_SendOnlyWhenOpen ==
    [][last'.op = "sendMessage" =>
          /\ phone' = phone /\ pSocks' = pSocks /\ pPhase' = pPhase
          /\ last'.arg = CurrentReadyState(pSocks)
          /\ last'.arg = "open" => last'.sent = 1
          /\ last'.arg \in {"absent", "connecting", "closing", "closed"} => last'.sent = 0]_vars

\* sendMessage has been called while wsRef named a socket that had closed.
C16_Witness ==
    /\ last.op = "sendMessage" /\ last.arg = "closed" /\ last.sent = 0

\* C17: a pong frame is not passed to the phone's handleMessage and leaves the phone's
\* state and sockets as they were; any other frame that parses is passed to it as it
\* arrives, and the state that results is that of one call of handleMessage.
C17_PongFiltered ==
    [][(role \in PhoneRoles /\ last'.op = "onmessage") =>
          LET m == [type |-> last'.arg, data |-> last'.data]
          IN /\ m.type = "pong" => ~last'.fwd /\ phone' = phone /\ pSocks' = pSocks
             /\ m.type \notin {"pong", "malformed"} =>
                   /\ last'.fwd
                   /\ pPhase = "mounted" => phone' = HandleMessage(phone, m)]_vars

\* The phone, holding a photo, has just received a pong.
C17_Witness ==
    /\ role \in PhoneRoles /\ pPhase = "mounted"
    /\ last.op = "onmessage" /\ last.arg = "pong"
    /\ phone.photos # <<>>

\* C18: a phone with a session id renders exactly one screen: countdown if the
\* countdown is non-null and above 0; else processing if the processing flag is set;
\* else photos if the list holds a photo; else waiting.
C18_OneScreenByPrecedence ==
    (role \in PhoneRoles /\ IsSome(phone.sessionId)) =>
        Screens(phone) =
            { IF IsSome(phone.countdown) /\ Get(phone.countdown) > 0 THEN "countdown"
              ELSE IF phone.isProcessing THEN "processing"
              ELSE IF Len(phone.photos) >= 1 THEN "photos"
              ELSE "waiting" }

\* The phone holds a photo while the strip is being processed.
C18_Witness ==
    /\ role \in PhoneRoles /\ IsSome(phone.sessionId)
    /\ phone.isProcessing /\ phone.photos # <<>>
    /\ Screens(phone) = {"processing"}

\* C19: when the phone has handled session_ended, its photos are empty, its countdown
\* is null, its capturing, processing and kiosk-connected flags are false, and the
\* screen it renders is waiting.
C19_SessionEndedResets ==
    (role \in PhoneRoles /\ pPhase = "mounted" /\ IsSome(phone.sessionId)
        /\ last.op = "onmessage" /\ last.arg = "session_ended") =>
        /\ phone.photos = <<>> /\ phone.countdown = None
        /\ ~phone.isCapturing /\ ~phone.isProcessing /\ ~phone.kioskConnected
        /\ Screens(phone) = {"waiting"}

\* C20: handling capture_start leaves the countdown and every other field of the
\* phone's state as it was.
C20_CaptureStartNoOp ==
    [][(role \in PhoneRoles /\ last'.op = "onmessage" /\ last'.arg = "capture_start") =>
          phone' = phone]_vars

\* C21: when a client has handled a countdown event with a value v above 0, its
\* countdown is v and its countdown display is the one shown; the kiosk is in state
\* capturing, the phone has its capturing flag true and its processing flag false.
C21_CountdownStartsCounting ==
    (last.op = "onmessage" /\ last.arg = "countdown" /\ IsSome(last.data)
        /\ IsSome(Get(last.data).value) /\ Get(Get(last.data).value) > 0) =>
        /\ (role = "kiosk" /\ kMounted) =>
              /\ kiosk.countdown = Get(last.data).value
              /\ kiosk.state = "capturing"
              /\ ShowOverlay(kiosk)
        /\ (role \in PhoneRoles /\ pPhase = "mounted") =>
              /\ phone.countdown = Get(last.data).value
              /\ phone.isCapturing /\ ~phone.isProcessing
              /\ Screens(phone) = {"countdown"}

\* The phone, holding a photo, has handled a countdown above 0 that changed its state.
C21_Witness ==
    /\ role \in PhoneRoles /\ pPhase = "mounted" /\ IsSome(phone.sessionId)
    /\ last.op = "onmessage" /\ last.arg = "countdown" /\ last.opened
    /\ IsSome(phone.countdown) /\ Get(phone.countdown) > 0
    /\ phone.photos # <<>>

C23_CaptureFailed ==
    [][kMounted =>
         /\ (last'.op = "onmessage" /\ last'.arg = "capture_failed") =>
               /\ kiosk'.state = "session" /\ kiosk'.countdown = None
               /\ kiosk'.error =
                     Some(IF IsSome(last'.data) /\ Get(last'.data).error # ""
                          THEN Get(last'.data).error ELSE "Capture failed")
               /\ 0 \in kErrTimers'
         /\ \A a \in kErrTimers :
               \/ a \in kErrTimers'
               \/ a < ErrorClearDelay /\ a + 1 \in kErrTimers'
               \/ a = ErrorClearDelay /\ kiosk'.error = None]_vars

\* The timer of a capture_failed has fired in the session the failure came in: no
\* error is shown any longer.
C23_Witness ==
    /\ role = "kiosk" /\ kMounted
    /\ last.op = "errorTimer" /\ kErrTimers = {} /\ kiosk.error = None
    /\ kiosk.state = "session" /\ IsSome(kiosk.session)

\* C24: in every reachable state of the kiosk, a screen state other than welcome comes
\* with a session record.
C24_StateHasSession ==
    role = "kiosk" => (kiosk.state # "welcome" => IsSome(kiosk.session))

\* C25: when the continuation of an endSession runs that was issued for a session other
\* than the one the kiosk now holds, the kiosk's state (session, photos, countdown,
\* screen) and its sockets and reconnect timers stay as they were.
C25_StaleEndSessionHarmless ==
    [][(/\ role = "kiosk" /\ kMounted
        /\ kEndReqs # <<>> /\ kEndReqs' = Tail1(kEndReqs)
        /\ IsSome(kiosk.session) /\ Head(kEndReqs) # Get(kiosk.session).id) =>
          kiosk' = kiosk /\ kSocks' = kSocks]_vars

\* C26: after every step of the phone, a current socket that is open has its heartbeat
\* interval running; a heartbeat that fires on a socket that is not open sends no
\* ping; and when the close handler of a socket the client had closed runs while the
\* current socket is open with its heartbeat running, an open socket with its
\* heartbeat running remains.
C26_Heartbeat ==
    [][/\ \A i \in Current(pSocks') :
              pSocks'[i].st = "open" => IsSome(pSocks'[i].ping)
       /\ (last'.op = "ping" /\ last'.arg # "open") => last'.sent = 0
       /\ (/\ last'.op = "onclose" /\ last'.arg = "closing"
           /\ \E i \in Current(pSocks) : pSocks[i].st = "open" /\ IsSome(pSocks[i].ping)) =>
             \E j \in DOMAIN pSocks' : pSocks'[j].st = "open" /\ IsSome(pSocks'[j].ping)]_vars

\* C27: after every step of the mounted phone, if no socket is connecting or closing
\* (no onopen and no onclose is pending), isConnected is true exactly if the socket
\* wsRef names is open; and the close handler of a socket the client had closed never
\* leaves isConnected false with the current socket open.
C27_ConnectedTracksSocket ==
    [][pPhase' = "mounted" =>
          LET currentOpen == \E i \in Current(pSocks') : pSocks'[i].st = "open"
          IN /\ (\A i \in DOMAIN pSocks' : pSocks'[i].st \in {"open", "closed"}) =>
                   (phone'.isConnected <=> currentOpen)
             /\ (last'.op = "onclose" /\ last'.arg = "closing") =>
                   ~(~phone'.isConnected /\ currentOpen)]_vars


\* C28: when an auto-clear timer fires while a younger one is still pending, the error
\* shown, which capture_failed or a failed startCapture set when the younger timer was
\* set, stays shown.
C28_ErrorShownFiveSeconds ==
    [][(/\ role = "kiosk" /\ kMounted /\ last'.op = "errorTimer"
        /\ IsSome(kiosk.error)
        /\ Get(kiosk.error) # "Failed to start session. Is the server running?"
        /\ kErrTimers' # {}) =>
          kiosk'.error = kiosk.error]_vars

\* C29: a frame delivered to the phone leaves its sockets as they were: none is closed
\* and none is created by the step that handles the frame.
C29_EventLeavesTransport ==
    [][(role \in PhoneRoles /\ last'.op = "onmessage") => pSocks' = pSocks]_vars

\* C30: a kiosk in the state capturing is later in the state session or welcome.
C30_CapturingEnds ==
    (role = "kiosk" /\ kiosk.state = "capturing") ~> (kiosk.state \in {"session", "welcome"})

====
